---- MODULE Spec2Model ----
(***************************************************************************)
(* PromptCCD training with Gaussian Mixture Prompt (known K):              *)
(* models/promptccd_training_w_gmp.py.                                     *)
(*                                                                         *)
(* The stage trainer (PromptCCD_Model.__init__, PromptCCD_Model.fit) is a  *)
(* state machine over the parameters in memory, the checkpoint files and   *)
(* the position in the epoch loop.  The loss kernels (info_nce_logits,     *)
(* SupConLoss.forward) and the batch masking are pure operators, explored  *)
(* by specifications of their own.                                         *)
(***************************************************************************)
EXTENDS Integers, Sequences, FiniteSets, TLC

VARIABLES
    args,               \* the run's configuration (argparse namespace)
    pc,                 \* position of the caller / of fit
    stage_i,            \* self.stage_i
    model,              \* self.model: the backbone's parameters
    projection_head,    \* self.projection_head: the head's parameters
    gmm_prompt,         \* self.gmm_prompt: the mixture-prompt state
    prev,               \* __init__'s model argument: "None" or "pair"
    loaded,             \* the paths __init__ gave to torch.load, in order
    files,              \* the checkpoint store: path -> saved state dict
    clock,              \* number of optimizer steps taken so far (names parameter values)
    epoch,              \* fit's loop variable
    batch_i,            \* index of the next batch of train_loader['contrast']
    best_test_acc_lab,  \* fit's running best
    old_acc_test,       \* the accuracy of the last evaluation gate
    res,                \* fit's conditioning context
    last_fwd,           \* the last gradient-tracked forward call: epoch, batch, res
    gate_log,           \* the evaluation gates of this fit: accuracy, best overwritten
    first_refit,        \* the first epoch of this fit in which the refit gate fired
    last_raise,         \* per stage: the parameters at the gate that last raised the best
    returned,           \* the pair the last fit returned, as it was on return
    acc_values,         \* the accuracies eval_kmeans may return in this run
    kin,                \* input of the loss-kernel specifications
    kout                \* output of the loss-kernel specifications

vars == <<args, pc, stage_i, model, projection_head, gmm_prompt, prev, loaded,
          files, clock, epoch, batch_i, best_test_acc_lab, old_acc_test, res,
          last_fwd, gate_log, first_refit, last_raise, returned, acc_values,
          kin, kout>>

trainer_vars == <<args, pc, stage_i, model, projection_head, gmm_prompt,
                  prev, loaded, files, clock, epoch, batch_i, best_test_acc_lab,
                  old_acc_test, res, last_fwd, gate_log, first_refit,
                  last_raise, returned, acc_values>>

None == "None"

\* ---------------------------------------------------------------- bounds

MaxStage == 1
MaxEpochs == 3
MaxEvery == 2
MaxAcc == 1
BatchSize == 2
BatchesPerEpoch == 2
KernelBatch == 4
SupBatch == 3
SupViews == 3
MaxLabelled == 2
MaxClasses == 5

\* ---------------------------------------------------------- tensor helpers

\* an optional argument: left at its default None, or given
NoArg == [given |-> FALSE, v |-> <<>>]
Arg(x) == [given |-> TRUE, v |-> x]

\* line 319: args.mlp_out_dim, the width of a projected feature
mlp_out_dim == 65536

RuntimeError == [raise |-> "RuntimeError"]
IndexError == [raise |-> "IndexError"]
ValueError == [raise |-> "ValueError"]

Raises(x) == "raise" \in DOMAIN x

\* torch.arange(n): the values 0 .. n-1
Arange(n) == [k \in 1..n |-> k - 1]

\* torch.cat of `count` copies of s along dim 0
Repeat(s, count) ==
    [k \in 1..(count * Len(s)) |-> s[((k - 1) % Len(s)) + 1]]

\* t[sel] with a boolean tensor sel of t's shape: the selected entries of the
\* matrix in row-major order, as a flat tensor
MaskedSelect(t, sel) ==
    LET rows == Len(t)
        cols == IF rows = 0 THEN 0 ELSE Len(t[1])
        cell == [k \in 1..(rows * cols) |->
                    <<((k - 1) \div cols) + 1, ((k - 1) % cols) + 1>>]
        kept == SelectSeq(cell, LAMBDA c : sel[c[1]][c[2]])
    IN  [k \in 1..Len(kept) |-> t[kept[k][1]][kept[k][2]]]

\* flat.view(rows, -1) raises: torch refuses to infer -1 for a tensor of 0
\* elements, and a size that rows does not divide
ViewRaises(flat, rows) ==
    Len(flat) = 0 \/ rows = 0 \/ Len(flat) % rows # 0

\* flat.view(rows, -1) where it does not raise
View(flat, rows) ==
    LET w == Len(flat) \div rows
    IN  [r \in 1..rows |-> SubSeq(flat, (r - 1) * w + 1, r * w)]

\* f[mask] for a 1-d boolean mask over dim 0: the rows where mask is true, in order
BoolIndex(f, mask) ==
    LET idx == SelectSeq([k \in 1..Len(f) |-> k], LAMBDA k : mask[k])
    IN  [k \in 1..Len(idx) |-> f[idx[k]]]

\* t.chunk(2) along dim 0: chunks of ceil(len / 2) rows
Chunk2(t) ==
    LET c == (Len(t) + 1) \div 2
    IN  IF Len(t) = 0 THEN <<t>>
        ELSE IF Len(t) <= c THEN <<t>>
        ELSE <<SubSeq(t, 1, c), SubSeq(t, c + 1, Len(t))>>

\* ------------------------------------------------------------ info_nce_logits

\* lines 258-286.  features is the sequence of embeddings; an entry of the
\* similarity matrix is kept as the pair of embeddings it compares, and a
\* logit as that pair over args.temperature.
info_nce_logits(features, n_views) ==
    LET M == Len(features)
        \* line 260: b_ = 0.5 * size; torch.arange(b_) has ceil(b_) entries
        b_ == (M + 1) \div 2
        \* line 262
        labels1 == Repeat(Arange(b_), n_views)
        L == Len(labels1)
        \* line 263
        labels2 == [i \in 1..L |-> [j \in 1..L |-> labels1[i] = labels1[j]]]
        \* line 268
        sim == [i \in 1..M |-> [j \in 1..M |-> <<features[i], features[j]>>]]
        \* line 271: ~mask, the cells off the main diagonal
        offdiag == [i \in 1..L |-> [j \in 1..L |-> i # j]]
        \* line 272
        flat_labels == MaskedSelect(labels2, offdiag)
    IN  IF ViewRaises(flat_labels, L) THEN RuntimeError
        \* line 273: the mask is L x L, the matrix M x M
        ELSE IF M # L THEN IndexError
        ELSE LET labels3 == View(flat_labels, L)
                 sim3 == View(MaskedSelect(sim, offdiag), M)
                 \* line 277
                 flat_pos == MaskedSelect(sim3, labels3)
                 \* line 280
                 flat_neg == MaskedSelect(sim3,
                                 [i \in 1..L |-> [j \in 1..Len(labels3[i]) |-> ~labels3[i][j]]])
             IN  IF ViewRaises(flat_pos, L) \/ ViewRaises(flat_neg, M)
                 THEN RuntimeError
                 ELSE LET positives == View(flat_pos, L)
                          negatives == View(flat_neg, M)
                          \* line 282
                          cat == [i \in 1..L |-> positives[i] \o negatives[i]]
                      IN  \* lines 283-286
                          [logits |-> [i \in 1..L |->
                                         [k \in 1..Len(cat[i]) |->
                                            [sim |-> cat[i][k], over |-> "temperature"]]],
                           labels |-> [i \in 1..L |-> 0]]

\* ------------------------------------------------------------- SupConLoss

\* lines 203-211: the bsz x bsz sample mask, from labels, from the explicit
\* mask, or the identity
SampleMask(batch_size, labels, mask) ==
    IF ~labels.given /\ ~mask.given
    THEN [i \in 1..batch_size |-> [j \in 1..batch_size |-> IF i = j THEN 1 ELSE 0]]
    ELSE IF labels.given
    THEN [i \in 1..batch_size |-> [j \in 1..batch_size |->
             IF labels.v[i] = labels.v[j] THEN 1 ELSE 0]]
    ELSE mask.v

\* line 234: mask.repeat(anchor_count, contrast_count)
TileMask(m, anchor_count, contrast_count) ==
    LET B == Len(m)
    IN  [i \in 1..(B * anchor_count) |-> [j \in 1..(B * contrast_count) |->
            m[((i - 1) % B) + 1][((j - 1) % B) + 1]]]

\* a mask that keeps the self-contrast cells
LogitsMaskOnes(rows, cols) == [i \in 1..rows |-> [j \in 1..cols |-> 1]]

\* lines 236-241: ones, with a zero scattered into column i of row i
LogitsMask(rows, cols) ==
    [i \in 1..rows |-> [j \in 1..cols |-> IF j = i THEN 0 ELSE 1]]

\* lines 234-242: the positive mask over anchors x contrasts
PositiveMask(m, anchor_count, contrast_count) ==
    LET tiled == TileMask(m, anchor_count, contrast_count)
        lm == LogitsMask(Len(m) * anchor_count, Len(m) * contrast_count)
    IN  [i \in 1..Len(tiled) |-> [j \in 1..Len(tiled[i]) |-> tiled[i][j] * lm[i][j]]]

RECURSIVE SumSeq(_)
\* t.sum() of a 1-d tensor
SumSeq(t) == IF Len(t) = 0 THEN 0 ELSE t[1] + SumSeq(Tail(t))

\* line 214: torch.cat(torch.unbind(features, dim=1), dim=0): view-major
ContrastFeature(rows, batch_size, n) ==
    [k \in 1..(n * batch_size) |->
        rows[((k - 1) % batch_size) + 1][((k - 1) \div batch_size) + 1]]

\* a forward that takes every mode but "one" for "all"
KnownModeLax(contrast_mode) == TRUE

\* lines 215-222: the modes forward knows
KnownMode(contrast_mode) == contrast_mode \in {"one", "all"}

\* lines 194-255: SupConLoss(contrast_mode).forward(features, labels, mask).
\* features is [shape, rows]: rows[b][v] is the embedding of view v of sample b.
\* The loss is kept as the positive mask it averages over, the per-row
\* positive counts it divides by, and whether it is a number.
SupConForward(contrast_mode, features, labels, mask) ==
    IF Len(features.shape) < 3 THEN ValueError
    ELSE LET batch_size == features.shape[1] IN
    IF labels.given /\ mask.given THEN ValueError
    ELSE IF labels.given /\ Len(labels.v) # batch_size THEN ValueError
    ELSE LET contrast_count == features.shape[2]
             contrast_feature == ContrastFeature(features.rows, batch_size, contrast_count)
    IN
    IF ~KnownMode(contrast_mode) THEN ValueError
    ELSE LET anchor_count == IF contrast_mode = "one" THEN 1 ELSE contrast_count
             anchor_feature ==
                 IF contrast_mode = "one"
                 THEN [b \in 1..batch_size |-> features.rows[b][1]]
                 ELSE contrast_feature
    IN
    \* line 230: torch.max over an empty dim 1 raises
    IF Len(contrast_feature) = 0 THEN IndexError
    ELSE LET pm == PositiveMask(SampleMask(batch_size, labels, mask),
                                anchor_count, contrast_count)
             count == [i \in 1..Len(pm) |-> SumSeq(pm[i])]
         IN  [anchors |-> anchor_feature,
              contrasts |-> contrast_feature,
              mask |-> pm,
              pos_count |-> count,
              loss |-> IF \E i \in 1..Len(count) : count[i] = 0
                       THEN "nan" ELSE "number"]

\* ------------------------------------------------------------ batch masking

\* lines 73-93: the embeddings of one batch, view 1's samples then view 2's
BatchFeatures(B, n) ==
    [k \in 1..(n * B) |-> [view |-> ((k - 1) \div B) + 1, sample |-> ((k - 1) % B) + 1]]

\* a selection that forgets the negation
NotDropped(mask) == mask

\* line 98: ~mask_lab
Not(mask) == [k \in 1..Len(mask) |-> ~mask[k]]

\* lines 96-102: the input of the unsupervised branch
ContrastFeats(features, mask_lab, contrast_unlabel_only) ==
    IF contrast_unlabel_only
    THEN LET ch == Chunk2(features)
         IN  IF Len(ch) # 2 THEN ValueError
             ELSE IF Len(ch[1]) # Len(mask_lab) \/ Len(ch[2]) # Len(mask_lab)
             THEN IndexError
             ELSE [t |-> BoolIndex(ch[1], Not(mask_lab)) \o BoolIndex(ch[2], Not(mask_lab))]
    ELSE [t |-> features]

\* an input of the supervised branch whose labels are left unmasked
SupConInputAllLabels(features, class_labels, mask_lab) ==
    LET ch == Chunk2(features)
    IN  IF Len(ch) # 2 THEN ValueError
        ELSE IF Len(ch[1]) # Len(mask_lab) \/ Len(ch[2]) # Len(mask_lab)
        THEN IndexError
        ELSE LET f1 == BoolIndex(ch[1], mask_lab)
                 f2 == BoolIndex(ch[2], mask_lab)
             IN  [feats |-> [shape |-> <<Len(f1), 2, mlp_out_dim>>,
                             rows |-> [b \in 1..Len(f1) |-> <<f1[b], f2[b]>>]],
                  labels |-> class_labels]

\* lines 109-111: the input of the supervised branch
SupConInput(features, class_labels, mask_lab) ==
    LET ch == Chunk2(features)
    IN  IF Len(ch) # 2 THEN ValueError
        ELSE IF Len(ch[1]) # Len(mask_lab) \/ Len(ch[2]) # Len(mask_lab)
        THEN IndexError
        ELSE LET f1 == BoolIndex(ch[1], mask_lab)
                 f2 == BoolIndex(ch[2], mask_lab)
             IN  [feats |-> [shape |-> <<Len(f1), 2, mlp_out_dim>>,
                             rows |-> [b \in 1..Len(f1) |-> <<f1[b], f2[b]>>]],
                  labels |-> BoolIndex(class_labels, mask_lab)]

\* lines 96-117: the losses of one batch, with what each branch was given; an
\* exception ends the batch where it is raised
BatchLoss(a, s, features, class_labels, mask_lab) ==
    LET con == ContrastFeats(features, mask_lab, a.contrast_unlabel_only)
    IN  IF Raises(con) THEN [raise |-> con.raise, at |-> "contrast"]
        ELSE LET nce == info_nce_logits(con.t, a.n_views)
             IN  IF Raises(nce)
                 THEN [raise |-> nce.raise, at |-> "info_nce", con_feats |-> con.t]
                 ELSE IF a.sup_con_weight[s + 1] > 0
                 THEN LET inp == SupConInput(features, class_labels, mask_lab)
                      IN  IF Raises(inp)
                          THEN [raise |-> inp.raise, at |-> "sup_con_input",
                                con_feats |-> con.t, nce |-> nce]
                          ELSE LET sup == SupConForward("all", inp.feats,
                                                        Arg(inp.labels), NoArg)
                               IN  IF Raises(sup)
                                   THEN [raise |-> sup.raise, at |-> "sup_con",
                                         con_feats |-> con.t, nce |-> nce, sup_in |-> inp]
                                   ELSE [con_feats |-> con.t, nce |-> nce,
                                         sup_called |-> TRUE, sup_in |-> inp,
                                         sup_con_loss |-> sup]
                 ELSE [con_feats |-> con.t, nce |-> nce, sup_called |-> FALSE,
                       sup_con_loss |-> 0]

\* ------------------------------------------------------ checkpoint store

\* os.path.join(args.save_path, 'model', f'{args.ccd_model}_stage_{i}_<part>.pt'):
\* the directory, the formatted stage number and the words of <part> between
\* its underscores.
CkptPath(a, i, part) ==
    [dir |-> <<a.save_path, "model">>, model_name |-> a.ccd_model,
     stage |-> i, part |-> part, ext |-> "pt"]

\* a constructor that restores the latest checkpoint instead of the best
LoadModelPathLatest(a, s) == CkptPath(a, s - 1, <<"model">>)

\* line 34: the path __init__ reads the backbone from
LoadModelPath(a, s) == CkptPath(a, s - 1, <<"model", "best">>)

\* line 35: the path __init__ reads the projection head from
LoadProjHeadPath(a, s) == CkptPath(a, s - 1, <<"proj", "head", "best">>)

\* line 146: the latest backbone checkpoint
SaveModelPath(a, s) == CkptPath(a, s, <<"model">>)

\* line 147: the latest projection-head checkpoint
SaveProjHeadPath(a, s) == CkptPath(a, s, <<"model", "proj", "head">>)

\* line 150: the best backbone checkpoint
SaveModelBestPath(a, s) == CkptPath(a, s, <<"model", "best">>)

\* a best projection-head checkpoint named after the latest one
SaveProjHeadBestPathLong(a, s) == CkptPath(a, s, <<"model", "proj", "head", "best">>)

\* line 151: the best projection-head checkpoint
SaveProjHeadBestPath(a, s) == CkptPath(a, s, <<"proj", "head", "best">>)

\* torch.save(state_dict, path): creates or overwrites the file
TorchSave(fs, path, sd) ==
    [p \in (DOMAIN fs) \cup {path} |-> IF p = path THEN sd ELSE fs[p]]

\* ------------------------------------------------------ stage lifecycle

\* get_vit_model(args): the pretrained backbone and a new DINOHead
get_vit_model ==
    [model |-> [part |-> "model", from |-> "get_vit_model", ver |-> 0],
     projection_head |-> [part |-> "projection_head", from |-> "get_vit_model", ver |-> 0]]

\* GMMPrompt(args, K): a mixture that has not been fitted
GMMPrompt(K) == [K |-> K, fits |-> 0, fit_on |-> -1]

\* the growth multiplied by the stage before it is divided by n_stage
StageKMulFirst(a, s) == a.labelled_data + ((s * (a.classes - a.labelled_data)) \div a.n_stage)

\* line 36: the number of components of a non-first stage
StageK(a, s) == a.labelled_data + (s * ((a.classes - a.labelled_data) \div a.n_stage))

\* line 37: halved when args.set_k_half
HalveK(a, K) == IF a.set_k_half THEN K \div 2 ELSE K

\* a first stage that grows and halves K like the later ones
FreshKStaged(a, s) == HalveK(a, StageK(a, s))

\* line 30: the number of components when no model is passed
FreshK(a, s) == a.labelled_data

\* lines 28-30: PromptCCD_Model(args, None, s)
ConstructFresh(s) ==
    /\ pc = "start"
    /\ stage_i' = s
    /\ model' = get_vit_model.model
    /\ projection_head' = get_vit_model.projection_head
    /\ gmm_prompt' = GMMPrompt(FreshK(args, s))
    /\ prev' = "None"
    /\ loaded' = <<>>
    /\ pc' = "constructed"
    /\ UNCHANGED <<args, files, clock, epoch, batch_i, best_test_acc_lab,
                   old_acc_test, res, last_fwd, gate_log, first_refit,
                   last_raise, returned, acc_values,
                   kin, kout>>

\* lines 32-38: PromptCCD_Model(args, model, s) with the pair a fit returned.
\* torch.load raises FileNotFoundError on a missing file; the backbone is
\* loaded before the projection head's file is opened.
ConstructFromPrevious(s) ==
    /\ pc = "returned"
    /\ s > stage_i
    /\ stage_i' = s
    /\ prev' = "pair"
    /\ IF LoadModelPath(args, s) \notin DOMAIN files
         THEN /\ pc' = "FileNotFoundError"
              /\ loaded' = <<LoadModelPath(args, s)>>
              /\ UNCHANGED <<model, projection_head, gmm_prompt>>
         ELSE /\ model' = files[LoadModelPath(args, s)]
              /\ IF LoadProjHeadPath(args, s) \notin DOMAIN files
                   THEN /\ pc' = "FileNotFoundError"
                        /\ loaded' = <<LoadModelPath(args, s), LoadProjHeadPath(args, s)>>
                        /\ UNCHANGED <<projection_head, gmm_prompt>>
                   ELSE /\ projection_head' = files[LoadProjHeadPath(args, s)]
                        /\ loaded' = <<LoadModelPath(args, s), LoadProjHeadPath(args, s)>>
                        /\ gmm_prompt' = GMMPrompt(HalveK(args, StageK(args, s)))
                        /\ pc' = "constructed"
    /\ UNCHANGED <<args, files, clock, epoch, batch_i, best_test_acc_lab,
                   old_acc_test, res, last_fwd, gate_log, first_refit,
                   last_raise, returned, acc_values,
                   kin, kout>>

\* ------------------------------------------------------------------ fit

NoRes == [kind |-> "None"]
NoForward == [kind |-> "none"]

\* self.gmm_prompt.fit(args, self.model, train_loader['default'], stage_i)
GmmFit(g, m) == [g EXCEPT !.fits = g.fits + 1, !.fit_on = m.ver]

\* self.gmm_prompt.predict(batch_feats) on batch b of epoch e
GmmPredict(g, e, b) == [kind |-> "predict", epoch |-> e, batch |-> b, fits |-> g.fits]

\* the mixture after predict: by its interface predict returns a context and
\* only fit mutates the mixture's state
PredictState(g) == g

\* the mixture after eval_kmeans, which by its interface returns the three
\* accuracies and mutates nothing it is given
EvalKmeansState(g) == g

\* optimizer.step(): new values of the trained parameters
OptimizerStep(p, t) == [p EXCEPT !.from = "fit", !.ver = t]

\* a context first asked for one epoch later
UsesPredictLate(a, e) == e > a.fit_gmm_every_n_epoch

\* line 80: whether this epoch's batches ask the mixture for a context
UsesPredict(a, e) == e >= a.fit_gmm_every_n_epoch

\* a refit gate with its condition inverted
RefitDueInverted(a, e) == e % a.fit_gmm_every_n_epoch # 0

\* a refit gate that skips the first epoch
RefitDueAfterFirst(a, e) == e > 0 /\ e % a.fit_gmm_every_n_epoch = 0

\* line 68: the refit gate
RefitDue(a, e) == e % a.fit_gmm_every_n_epoch = 0

\* a gate that counts epochs from 1
EvalDueFromOne(a, e) == (e + 1) % a.eval_every_n_epoch = 0

\* line 132: the evaluation gate
EvalDue(a, e) == e % a.eval_every_n_epoch = 0

\* a gate that overwrites the best files whatever it measures
BeatsBestAlways(acc, best) == TRUE

\* a gate that also overwrites on a tie
BeatsBestOrTies(acc, best) == acc >= best

\* line 149: the gate's accuracy beats the running best
BeatsBest(acc, best) == acc > best

\* lines 43-58: fit's prologue
FitStart ==
    /\ pc = "constructed"
    /\ best_test_acc_lab' = 0
    /\ res' = NoRes
    /\ epoch' = 0
    /\ batch_i' = 0
    /\ last_fwd' = NoForward
    /\ gate_log' = <<>>
    /\ first_refit' = -1
    /\ pc' = "epoch_top"
    /\ UNCHANGED <<args, stage_i, model, projection_head, gmm_prompt,
                   prev, loaded, files, clock, old_acc_test, last_raise, returned, acc_values, kin, kout>>

\* lines 60-69: the top of an epoch, with the refit gate
RefitGate ==
    /\ pc = "epoch_top"
    /\ epoch < args.epochs
    /\ IF RefitDue(args, epoch)
         THEN /\ gmm_prompt' = GmmFit(gmm_prompt, model)
              /\ first_refit' = IF first_refit = -1 THEN epoch ELSE first_refit
         ELSE UNCHANGED <<gmm_prompt, first_refit>>
    /\ batch_i' = 0
    /\ pc' = "batches"
    /\ UNCHANGED <<args, stage_i, model, projection_head, prev, loaded, files,
                   clock, epoch, best_test_acc_lab, old_acc_test, res,
                   last_fwd, gate_log, last_raise, returned, acc_values, kin, kout>>

\* lines 71-127: one batch of train_loader['contrast']
Batch ==
    /\ pc = "batches"
    /\ batch_i < BatchesPerEpoch
    /\ \E mask_lab \in [1..BatchSize -> BOOLEAN] :
         LET class_labels == [k \in 1..BatchSize |-> k % 2]
             \* lines 80-83
             ctx == IF UsesPredict(args, epoch)
                    THEN GmmPredict(gmm_prompt, epoch, batch_i)
                    ELSE res
             \* lines 86-117
             loss == BatchLoss(args, stage_i, BatchFeatures(BatchSize, args.n_views),
                               class_labels, mask_lab)
         IN  /\ res' = ctx
             /\ gmm_prompt' = IF UsesPredict(args, epoch)
                               THEN PredictState(gmm_prompt) ELSE gmm_prompt
             /\ last_fwd' = [kind |-> "forward", epoch |-> epoch,
                             batch |-> batch_i, res |-> ctx]
             /\ IF Raises(loss)
                  THEN /\ pc' = loss.raise
                       /\ UNCHANGED <<model, projection_head, clock, batch_i>>
                  ELSE \* lines 125-127
                       /\ clock' = clock + 1
                       /\ model' = OptimizerStep(model, clock + 1)
                       /\ projection_head' = OptimizerStep(projection_head, clock + 1)
                       /\ batch_i' = batch_i + 1
                       /\ pc' = "batches"
    /\ UNCHANGED <<args, stage_i, prev, loaded, files, epoch,
                   best_test_acc_lab, old_acc_test, gate_log, first_refit,
                   last_raise, returned, acc_values,
                   kin, kout>>

\* lines 129-152: the scheduler step and the evaluation gate that end an epoch
EvalGate ==
    /\ pc = "batches"
    /\ batch_i = BatchesPerEpoch
    /\ IF EvalDue(args, epoch)
         THEN \E acc \in acc_values :
                \* lines 146-147
                LET latest == TorchSave(TorchSave(files, SaveModelPath(args, stage_i), model),
                                        SaveProjHeadPath(args, stage_i), projection_head)
                IN  /\ old_acc_test' = acc
                    /\ IF BeatsBest(acc, best_test_acc_lab)
                         THEN \* lines 150-152
                              /\ files' = TorchSave(TorchSave(latest,
                                              SaveModelBestPath(args, stage_i), model),
                                              SaveProjHeadBestPath(args, stage_i), projection_head)
                              /\ best_test_acc_lab' = acc
                              /\ gate_log' = Append(gate_log,
                                     [epoch |-> epoch, acc |-> acc, best_written |-> TRUE,
                                      model |-> model, projection_head |-> projection_head])
                         ELSE /\ files' = latest
                              /\ best_test_acc_lab' = best_test_acc_lab
                              /\ gate_log' = Append(gate_log,
                                     [epoch |-> epoch, acc |-> acc, best_written |-> FALSE,
                                      model |-> model, projection_head |-> projection_head])
         ELSE UNCHANGED <<files, old_acc_test, best_test_acc_lab, gate_log>>
    \* the parameters in memory whenever the running best has just risen
    /\ last_raise' =
          IF best_test_acc_lab' > best_test_acc_lab
          THEN [s \in (DOMAIN last_raise) \cup {stage_i} |->
                  IF s = stage_i
                  THEN [model |-> model, projection_head |-> projection_head,
                        epoch |-> epoch]
                  ELSE last_raise[s]]
          ELSE last_raise
    \* lines 135-141
    /\ gmm_prompt' = IF EvalDue(args, epoch)
                      THEN EvalKmeansState(gmm_prompt) ELSE gmm_prompt
    /\ epoch' = epoch + 1
    /\ pc' = "epoch_top"
    /\ UNCHANGED <<args, stage_i, model, projection_head,
                   prev, loaded, clock, batch_i, res, last_fwd, first_refit, returned,
                   acc_values, kin, kout>>

\* line 154: fit returns (self.model, self.projection_head); its locals end
Return ==
    /\ pc = "epoch_top"
    /\ epoch >= args.epochs
    /\ returned' = [model |-> model, projection_head |-> projection_head]
    /\ pc' = "returned"
    /\ epoch' = 0
    /\ batch_i' = 0
    /\ best_test_acc_lab' = 0
    /\ old_acc_test' = 0
    /\ res' = NoRes
    /\ last_fwd' = NoForward
    /\ gate_log' = <<>>
    /\ first_refit' = -1
    /\ UNCHANGED <<args, stage_i, model, projection_head, gmm_prompt, prev, loaded,
                   files, clock, last_raise, acc_values, kin, kout>>

\* ------------------------------------------------------- specifications

Unset(part) == [part |-> part, from |-> "unset", ver |-> -1]

\* the configurations a run is started with
Args(e, f, v, ld, cl, ns, half, unl, w) ==
    [save_path |-> "save_path", ccd_model |-> "ccd_model", n_views |-> 2,
     epochs |-> e, fit_gmm_every_n_epoch |-> f, eval_every_n_epoch |-> v,
     labelled_data |-> ld, classes |-> cl, n_stage |-> ns, set_k_half |-> half,
     contrast_unlabel_only |-> unl, sup_con_weight |-> w]

\* sup_con_weight, in percent, per stage: on at stage 0 only, or off
SupConWeight(ns, w) == [s \in 1..(ns + 1) |-> IF s = 1 THEN w ELSE 0]

\* the state of a run: before any stage is constructed (p = "start"), or with
\* its first stage object constructed (p = "constructed")
TrainerInit(a, accs, p) ==
    /\ args = a
    /\ acc_values = accs
    /\ pc = p
    /\ stage_i = 0
    /\ model = IF p = "start" THEN Unset("model") ELSE get_vit_model.model
    /\ projection_head = IF p = "start" THEN Unset("projection_head")
                         ELSE get_vit_model.projection_head
    /\ gmm_prompt = IF p = "start" THEN GMMPrompt(0) ELSE GMMPrompt(FreshK(a, 0))
    /\ prev = "None"
    /\ loaded = <<>>
    /\ files = <<>>
    /\ clock = 0
    /\ epoch = 0
    /\ batch_i = 0
    /\ best_test_acc_lab = 0
    /\ old_acc_test = 0
    /\ res = NoRes
    /\ last_fwd = NoForward
    /\ gate_log = <<>>
    /\ first_refit = -1
    /\ last_raise = <<>>
    /\ returned = [model |-> Unset("model"), projection_head |-> Unset("projection_head")]

\* the trainer specifications leave the kernels' input and output alone
InitTrainer(a, accs, p) ==
    /\ TrainerInit(a, accs, p)
    /\ kin = <<>>
    /\ kout = <<>>

\* runs of up to MaxStage + 1 stages
Init ==
    \E e \in 1..MaxEpochs, f \in 1..MaxEvery, v \in 1..MaxEvery, unl \in BOOLEAN :
        InitTrainer(Args(e, f, v, 2, 5, MaxStage, FALSE, unl,
                         SupConWeight(MaxStage, IF unl THEN 0 ELSE 35)),
                    0..MaxAcc, "start")

\* the gate accuracies 0.1, 0.05, 0.3, 0.2, 0.4 in units of 0.05
ExampleAccs == <<2, 1, 6, 4, 8>>

\* one stage of as many epochs, with an evaluation gate in each that measures
\* 0 or one of these accuracies
InitGates ==
    InitTrainer(Args(Len(ExampleAccs), 1, 1, 2, 5, 1, FALSE, FALSE, SupConWeight(1, 0)),
                {0} \cup {ExampleAccs[k] : k \in 1..Len(ExampleAccs)}, "constructed")

\* labelled_data=50, classes=100, n_stage=5
ExampleK(half) == Args(1, 1, 1, 50, 100, 5, half, FALSE, SupConWeight(5, 0))

\* one-epoch stages over the configurations that decide K
InitK ==
    \E half \in BOOLEAN :
        \/ \E ld \in 0..MaxLabelled, cl \in 0..MaxClasses, ns \in 1..(MaxStage + 1) :
              /\ ld <= cl
              /\ InitTrainer(Args(1, 1, 1, ld, cl, ns, half, FALSE, SupConWeight(ns, 0)),
                             {1}, "start")
        \/ InitTrainer(ExampleK(half), {1}, "start")

\* the caller: the first stage object is built without a model, each later one
\* from the pair the last fit returned, for a later stage of the n_stage + 1
Construct ==
    \/ \E s \in 0..args.n_stage : ConstructFresh(s)
    \/ \E s \in 0..args.n_stage : ConstructFromPrevious(s)

Fit ==
    \/ FitStart
    \/ RefitGate
    \/ Batch
    \/ EvalGate
    \/ Return

Next == Construct \/ Fit

Spec == Init /\ [][Next]_vars

NextFit == Fit

SpecGates == InitGates /\ [][NextFit]_vars

SpecK == InitK /\ [][Next]_vars

\* ------------------------------------------ the loss kernels on their own

NotCalled == [done |-> FALSE]

\* the batches of up to KernelBatch samples: who is labelled, and the classes
Batches ==
    UNION {[B : {B}, mask_lab : [1..B -> BOOLEAN],
            class_labels : {[k \in 1..B |-> k], [k \in 1..B |-> k % 2]}]
           : B \in 1..KernelBatch}

\* a stage-0 trainer in its batch loop, about to process one batch
InitBatch ==
    \E unl \in BOOLEAN, w \in {0, 35} :
        /\ TrainerInit(Args(1, 1, 1, 2, 5, 1, FALSE, unl, SupConWeight(1, w)),
                       {0}, "batches")
        /\ kin \in Batches
        /\ kout = NotCalled

\* lines 73-117 on the batch kin
BatchBody ==
    /\ pc = "batches"
    /\ ~kout.done
    /\ kout' = [done |-> TRUE,
                out |-> BatchLoss(args, stage_i, BatchFeatures(kin.B, args.n_views),
                                  kin.class_labels, kin.mask_lab)]
    /\ UNCHANGED <<trainer_vars, kin>>

SpecBatch == InitBatch /\ [][BatchBody]_vars

\* the feature tensors of 1 to 4 dimensions for bsz samples and n views
FeatureTensors ==
    UNION {{[shape |-> sh,
             rows |-> [b \in 1..bsz |-> [v \in 1..n |-> [view |-> v, sample |-> b]]]]
               : sh \in {<<bsz>>, <<bsz, n>>, <<bsz, n, mlp_out_dim>>, <<bsz, n, 2, 2>>}}
           : bsz \in 1..SupBatch, n \in 1..SupViews}

\* the labels argument: None, or a tensor of 1 to SupBatch class labels
LabelArgs ==
    {NoArg} \cup {Arg(l) : l \in UNION {[1..n -> 0..1] : n \in 1..SupBatch}}

\* the mask argument for bsz samples: None, the identity, or all ones
MaskArgs(bsz) ==
    {NoArg,
     Arg([i \in 1..bsz |-> [j \in 1..bsz |-> IF i = j THEN 1 ELSE 0]]),
     Arg([i \in 1..bsz |-> [j \in 1..bsz |-> 1]])}

\* a call SupConLoss(contrast_mode=mode)(features, labels, mask)
InitSupCon ==
    /\ TrainerInit(Args(1, 1, 1, 2, 5, 1, FALSE, FALSE, SupConWeight(1, 35)),
                   {0}, "batches")
    /\ \E mode \in {"one", "all", "sum"}, f \in FeatureTensors, l \in LabelArgs :
          \E m \in MaskArgs(f.shape[1]) :
              kin = [contrast_mode |-> mode, features |-> f, labels |-> l, mask |-> m]
    /\ kout = NotCalled

\* lines 177-255 on the call kin
CallSupCon ==
    /\ ~kout.done
    /\ kout' = [done |-> TRUE,
                out |-> SupConForward(kin.contrast_mode, kin.features, kin.labels, kin.mask)]
    /\ UNCHANGED <<trainer_vars, kin>>

SpecSupCon == InitSupCon /\ [][CallSupCon]_vars

\* ------------------------------------------------------------- properties

MaxOf(S) == CHOOSE x \in S : \A y \in S : y <= x

\* the accuracies of the gates before gate k of this fit, and the initial 0
EarlierAccs(k) == {0} \cup {gate_log[j].acc : j \in 1..(k - 1)}

ConstructedFromPair == pc = "constructed" /\ prev = "pair"

\* C1: a stage constructed from a previous model (stage_i >= 1) starts from the
\* backbone and projection-head parameters that were in memory at the gate
\* that last raised stage stage_i - 1's running best.
C1_RestoresBestOfPreviousStage ==
    ConstructedFromPair =>
        /\ stage_i >= 1
        /\ (stage_i - 1) \in DOMAIN last_raise
        /\ model = last_raise[stage_i - 1].model
        /\ projection_head = last_raise[stage_i - 1].projection_head

\* C1: such a stage, where the restored parameters are not the ones stage
\* stage_i - 1 had in memory when its fit returned.
C1_Witness ==
    /\ ConstructedFromPair
    /\ model = last_raise[stage_i - 1].model
    /\ model # returned.model
    /\ projection_head # returned.projection_head

\* C2 as stated: K = labelled + (stage_i * (classes - labelled)) div n_stage,
\* halved when set_k_half.
C2_AsStated ==
    ConstructedFromPair =>
        LET k == args.labelled_data
                 + ((stage_i * (args.classes - args.labelled_data)) \div args.n_stage)
        IN  gmm_prompt.K = IF args.set_k_half THEN k \div 2 ELSE k

\* C2 amended: K = labelled + stage_i * q, where q is the whole number of times
\* n_stage goes into classes - labelled, and K is the whole half of that when
\* set_k_half; labelled_data=50, classes=100, n_stage=5, stage_i=2 gives 70, or 35.
C2_GrowthDividedBeforeMultiplied ==
    ConstructedFromPair =>
        /\ \E q \in 0..args.classes :
              /\ q * args.n_stage <= args.classes - args.labelled_data
              /\ args.classes - args.labelled_data < (q + 1) * args.n_stage
              /\ LET k == args.labelled_data + stage_i * q
                 IN  IF args.set_k_half
                     THEN 2 * gmm_prompt.K <= k /\ k < 2 * gmm_prompt.K + 2
                     ELSE gmm_prompt.K = k
        /\ (args = ExampleK(FALSE) /\ stage_i = 2) => gmm_prompt.K = 70
        /\ (args = ExampleK(TRUE) /\ stage_i = 2) => gmm_prompt.K = 35

\* C2: a non-first stage whose n_stage does not divide classes - labelled, where
\* the two orders of division differ.
C2_Witness ==
    /\ ConstructedFromPair
    /\ (args.classes - args.labelled_data) % args.n_stage # 0
    /\ gmm_prompt.K # args.labelled_data
          + ((stage_i * (args.classes - args.labelled_data)) \div args.n_stage)
    /\ ~args.set_k_half

\* C3: at every gate of a fit the best checkpoint is overwritten exactly when
\* the gate's accuracy is strictly above the maximum of 0 and the earlier gates'
\* accuracies; the running best is that maximum over all gates so far (so it
\* never decreases); for 0.1, 0.05, 0.3, 0.2, 0.4 the overwrites are at 0.1,
\* 0.3 and 0.4.
C3_BestOverwrittenOnStrictRise ==
    /\ \A k \in 1..Len(gate_log) :
          gate_log[k].best_written <=> gate_log[k].acc > MaxOf(EarlierAccs(k))
    /\ pc \in {"epoch_top", "batches"} =>
          best_test_acc_lab = MaxOf(EarlierAccs(Len(gate_log) + 1))
    /\ [k \in 1..Len(gate_log) |-> gate_log[k].acc] = ExampleAccs =>
          [k \in 1..Len(gate_log) |-> gate_log[k].best_written]
              = <<TRUE, FALSE, TRUE, FALSE, TRUE>>

\* C3: the five gates 0.1, 0.05, 0.3, 0.2, 0.4 have been passed.
C3_Witness ==
    /\ [k \in 1..Len(gate_log) |-> gate_log[k].acc] = ExampleAccs
    /\ best_test_acc_lab = 8
    /\ SaveModelBestPath(args, stage_i) \in DOMAIN files

\* the context of the last gradient-tracked forward came from predict on its batch
FromPredictOnSameBatch ==
    /\ last_fwd.res.kind = "predict"
    /\ last_fwd.res.epoch = last_fwd.epoch
    /\ last_fwd.res.batch = last_fwd.batch

ConventionParts ==
    {<<"model">>, <<"model", "proj", "head">>,
     <<"model", "best">>, <<"model", "proj", "head", "best">>}

\* the paths fit has written and __init__ has opened
UsedPaths == (DOMAIN files) \cup {loaded[k] : k \in 1..Len(loaded)}

WellPlaced(p) ==
    /\ p.dir = <<args.save_path, "model">>
    /\ p.model_name = args.ccd_model
    /\ p.ext = "pt"

\* C9 as stated: every checkpoint path written or read is
\* {save_path}/model/{model_name}_stage_{i}_{model|model_proj_head}[_best].{ext}.
C9_AsStated ==
    \A p \in UsedPaths : WellPlaced(p) /\ p.part \in ConventionParts

\* C9 amended: every checkpoint path written or read is
\* {save_path}/model/{model_name}_stage_{i}_<part>.pt, where <part> is model
\* (latest backbone), model_proj_head (latest head), model_best (best backbone)
\* or proj_head_best (best head, without the leading model_); a backbone file
\* holds backbone parameters and a head file head parameters.
C9_PathsAsWritten ==
    /\ \A p \in UsedPaths :
          /\ WellPlaced(p)
          /\ p.part \in {<<"model">>, <<"model", "proj", "head">>,
                         <<"model", "best">>, <<"proj", "head", "best">>}
    /\ \A p \in DOMAIN files :
          files[p].part = IF p.part \in {<<"model">>, <<"model", "best">>}
                          THEN "model" ELSE "projection_head"
    /\ ConstructedFromPair =>
          /\ loaded[1].part = <<"model", "best">>
          /\ loaded[2].part = <<"proj", "head", "best">>

\* C9: a stage has written its four files and the next has read the two best ones.
C9_Witness ==
    /\ ConstructedFromPair
    /\ \E p \in DOMAIN files : p.part = <<"proj", "head", "best">> /\ p = loaded[2]
    /\ \E p \in DOMAIN files : p.part = <<"model", "proj", "head">>

\* C10: a stage constructed with no previous model reads no checkpoint, has
\* the backbone and head of get_vit_model, and a mixture of K = labelled_data
\* components, whatever stage_i and set_k_half are.
C10_FreshStage ==
    (pc = "constructed" /\ prev = "None") =>
        /\ loaded = <<>>
        /\ model = get_vit_model.model
        /\ projection_head = get_vit_model.projection_head
        /\ gmm_prompt.K = args.labelled_data
        /\ gmm_prompt.fits = 0

\* C10: such a stage with stage_i >= 1 and set_k_half, where the later stages'
\* formula would give another K.
C10_Witness ==
    /\ pc = "constructed"
    /\ prev = "None"
    /\ stage_i >= 1
    /\ args.set_k_half
    /\ HalveK(args, StageK(args, stage_i)) # args.labelled_data
    /\ gmm_prompt.K = args.labelled_data

\* the samples of the batch kin whose labelled_mask is false
UnlabelledOf(b) == {k \in 1..b.B : ~b.mask_lab[k]}

\* C5: for every batch and labelled_mask the unsupervised branch is given,
\* when contrast_unlabel_only is set, exactly the samples whose mask is false,
\* view 1's embeddings first and view 2's second in the same increasing
\* sample order; when the flag is not set, every sample of both views.
C5_UnlabelledOnlyBothViews ==
    kout.done =>
        /\ "con_feats" \in DOMAIN kout.out
        /\ LET con == kout.out.con_feats
               U == IF args.contrast_unlabel_only THEN UnlabelledOf(kin)
                    ELSE 1..kin.B
               n == Cardinality(U)
           IN  /\ Len(con) = 2 * n
               /\ {con[k].sample : k \in 1..n} = U
               /\ \A k \in 1..n :
                     /\ con[k].view = 1
                     /\ con[n + k].view = 2
                     /\ con[n + k].sample = con[k].sample
               /\ \A k \in 1..(n - 1) : con[k].sample < con[k + 1].sample

\* C5: the mask [T,F,T,F] with the flag set gives the 4 embeddings of
\* samples 2 and 4, view 1 then view 2.
C5_Witness ==
    /\ kout.done
    /\ args.contrast_unlabel_only
    /\ kin.mask_lab = <<TRUE, FALSE, TRUE, FALSE>>
    /\ kout.out.con_feats = <<[view |-> 1, sample |-> 2], [view |-> 1, sample |-> 4],
                              [view |-> 2, sample |-> 2], [view |-> 2, sample |-> 4]>>

C7_ValueErrorCases ==
    kout.done =>
        LET few_dims == Len(kin.features.shape) < 3
            both == kin.labels.given /\ kin.mask.given
            mismatch == kin.labels.given /\ Len(kin.labels.v) # kin.features.shape[1]
            unknown == kin.contrast_mode \notin {"one", "all"}
        IN  IF few_dims \/ both \/ mismatch \/ unknown
            THEN kout.out = ValueError
            ELSE ~Raises(kout.out) /\ "loss" \in DOMAIN kout.out

\* C7: a call that is well formed but for its contrast_mode ends in ValueError.
C7_Witness ==
    /\ kout.done
    /\ kin.contrast_mode = "sum"
    /\ Len(kin.features.shape) = 3
    /\ kin.labels.given
    /\ ~kin.mask.given
    /\ Len(kin.labels.v) = kin.features.shape[1]
    /\ kout.out = ValueError

\* a call in mode "all" with labels of the batch's length and V >= 2 views
LabelledAllCall ==
    /\ kout.done
    /\ kin.contrast_mode = "all"
    /\ Len(kin.features.shape) >= 3
    /\ kin.features.shape[2] >= 2
    /\ kin.labels.given
    /\ ~kin.mask.given
    /\ Len(kin.labels.v) = kin.features.shape[1]

\* C8: in mode "all", for every label vector of length B and V >= 2 views,
\* anchor i is a view of sample i mod B, the positive mask marks (i, j)
\* exactly when i # j and the samples of i and j carry equal labels, and so
\* every anchor row has at least one positive and the loss divides by no zero.
C8_PositiveMask ==
    LabelledAllCall =>
        LET B == kin.features.shape[1]
            V == kin.features.shape[2]
            SampleOf(i) == ((i - 1) % B) + 1
        IN  /\ ~Raises(kout.out)
            /\ Len(kout.out.mask) = B * V
            /\ \A i \in 1..(B * V) :
                  /\ kout.out.anchors[i].sample = SampleOf(i)
                  /\ Len(kout.out.mask[i]) = B * V
                  /\ \A j \in 1..(B * V) :
                        kout.out.mask[i][j] =
                            IF i # j /\ kin.labels.v[SampleOf(i)] = kin.labels.v[SampleOf(j)]
                            THEN 1 ELSE 0
                  /\ kout.out.pos_count[i] >= 1
            /\ kout.out.loss = "number"

\* C8: two samples of different classes in two views: each anchor's only
\* positive is the other view of its own sample.
C8_Witness ==
    /\ LabelledAllCall
    /\ kin.features.shape = <<2, 2, mlp_out_dim>>
    /\ kin.labels.v = <<0, 1>>
    /\ kout.out.pos_count = <<1, 1, 1, 1>>
    /\ kout.out.mask[1] = <<0, 0, 1, 0>>

\* the refit epochs among epochs 0 .. e
RefitEpochs(e) == {x \in 0..e : x % args.fit_gmm_every_n_epoch = 0}

\* C11: during fit the mixture is refitted in exactly the epochs e with
\* e mod fit_gmm_every_n_epoch = 0, once in each and before the epoch's first
\* batch, and no other step of fit (a batch with its predict and optimizer
\* step, the scheduler step, the evaluation, the checkpoint writes) changes it.
C11_RefitOnlyAtGate ==
    /\ [](/\ pc = "batches" => gmm_prompt.fits = Cardinality(RefitEpochs(epoch))
          /\ pc = "epoch_top" => gmm_prompt.fits = Cardinality(RefitEpochs(epoch - 1)))
    /\ [][(pc \in {"constructed", "epoch_top", "batches"} /\ gmm_prompt' # gmm_prompt) =>
             /\ pc = "epoch_top"
             /\ pc' = "batches"
             /\ batch_i' = 0
             /\ epoch % args.fit_gmm_every_n_epoch = 0
             /\ gmm_prompt'.fits = gmm_prompt.fits + 1
             /\ gmm_prompt'.K = gmm_prompt.K]_vars

\* C11: the batches of epoch 2 with a refit every 2 epochs: the mixture was
\* fitted at epochs 0 and 2 and not at epoch 1.
C11_Witness ==
    /\ pc = "batches"
    /\ batch_i = BatchesPerEpoch
    /\ args.fit_gmm_every_n_epoch = 2
    /\ epoch = 2
    /\ gmm_prompt.fits = 2

\* the evaluation epochs among epochs 0 .. e
GateEpochs(e) == {x \in 0..e : x % args.eval_every_n_epoch = 0}

\* the last evaluation gate of the running fit
LastGate == gate_log[Len(gate_log)]

\* C12: the latest backbone and projection-head files of a stage are written
\* at every evaluation gate (every epoch e with e mod eval_every_n_epoch = 0),
\* whatever accuracy is measured there, and at no other epoch; so at every
\* epoch boundary they hold the parameters of the most recent gate, and
\* parameters trained since that gate are in no checkpoint file.
C12_LatestWrittenAtEveryGate ==
    /\ [](pc = "epoch_top" =>
            /\ Len(gate_log) = Cardinality(GateEpochs(epoch - 1))
            /\ \A k \in 1..Len(gate_log) :
                  gate_log[k].epoch = (k - 1) * args.eval_every_n_epoch
            /\ IF gate_log = <<>>
               THEN /\ SaveModelPath(args, stage_i) \notin DOMAIN files
                    /\ SaveProjHeadPath(args, stage_i) \notin DOMAIN files
               ELSE /\ files[SaveModelPath(args, stage_i)] = LastGate.model
                    /\ files[SaveProjHeadPath(args, stage_i)] = LastGate.projection_head
                    /\ model # LastGate.model =>
                          \A p \in DOMAIN files :
                              files[p] # model /\ files[p] # projection_head)
    /\ [][files' # files =>
             /\ pc = "batches"
             /\ pc' = "epoch_top"
             /\ epoch % args.eval_every_n_epoch = 0
             /\ files'[SaveModelPath(args, stage_i)] = model
             /\ files'[SaveProjHeadPath(args, stage_i)] = projection_head]_vars

\* C12: the boundary after epoch 1 with a gate every 2 epochs: the latest
\* files were written at epoch 0, where the accuracy did not beat the best,
\* and the parameters trained in epoch 1 are in no file.
C12_Witness ==
    /\ pc = "epoch_top"
    /\ args.eval_every_n_epoch = 2
    /\ epoch = 2
    /\ Len(gate_log) = 1
    /\ ~LastGate.best_written
    /\ files[SaveModelPath(args, stage_i)] = LastGate.model
    /\ model # LastGate.model
    /\ \A p \in DOMAIN files : files[p] # model

\* the samples of the batch b whose labelled_mask is true
LabelledOf(b) == {k \in 1..b.B : b.mask_lab[k]}

C14_AsStated ==
    /\ (pc = "returned" /\ args.epochs >= 1) =>
          /\ SaveModelBestPath(args, stage_i) \in DOMAIN files
          /\ SaveProjHeadBestPath(args, stage_i) \in DOMAIN files
    /\ pc # "FileNotFoundError"

\* the gates of the running fit that wrote the best files
BestWrites == {k \in 1..Len(gate_log) : gate_log[k].best_written}

\* C15: at every epoch boundary of a stage that has written a best
\* checkpoint, the best backbone file and the best projection-head file hold
\* the parameters evaluated at one and the same gate, and that gate is the
\* earliest of the stage's gates attaining the maximum accuracy so far: a
\* later gate of equal accuracy has not replaced it.
C15_BestPairFromEarliestMaxGate ==
    (pc = "epoch_top" /\ BestWrites # {}) =>
        LET g == MaxOf(BestWrites)
        IN  /\ files[SaveModelBestPath(args, stage_i)] = gate_log[g].model
            /\ files[SaveProjHeadBestPath(args, stage_i)] = gate_log[g].projection_head
            /\ \A k \in 1..Len(gate_log) :
                  /\ gate_log[k].acc <= gate_log[g].acc
                  /\ k < g => gate_log[k].acc < gate_log[g].acc
                  /\ k # g =>
                        /\ gate_log[k].model # files[SaveModelBestPath(args, stage_i)]
                        /\ gate_log[k].projection_head #
                              files[SaveProjHeadBestPath(args, stage_i)]

\* C15: two gates of equal accuracy: the best files still hold the first
\* gate's parameters, not the second's and not the ones now in memory.
C15_Witness ==
    /\ pc = "epoch_top"
    /\ Len(gate_log) = 2
    /\ gate_log[1].best_written
    /\ gate_log[2].acc = gate_log[1].acc
    /\ files[SaveModelBestPath(args, stage_i)] = gate_log[1].model
    /\ files[SaveProjHeadBestPath(args, stage_i)] = gate_log[1].projection_head
    /\ model # gate_log[1].model

\* C16: every call of info_nce_logits by the trainer meets its precondition
\* N >= 1: for every batch, every labelled_mask and either setting of
\* contrast_unlabel_only the embedding set handed to it is non-empty.
C16_AsStated ==
    kout.done =>
        /\ "con_feats" \in DOMAIN kout.out
        /\ Len(kout.out.con_feats) >= 1
        /\ Len(kout.out.con_feats) \div args.n_views >= 1

\* C17: within a stage predict is never called on a mixture that has not
\* been fitted in that stage: the mixture object made by the stage's
\* constructor has been fitted at least once before every predict call of
\* fit, for every epochs >= 1 and fit_gmm_every_n_epoch >= 1.
C17_PredictOnlyAfterFit ==
    /\ res.kind = "predict" =>
          /\ res.fits >= 1
          /\ gmm_prompt.fits >= res.fits
          /\ first_refit # -1
          /\ first_refit <= res.epoch
    /\ (pc = "batches" /\ epoch >= args.fit_gmm_every_n_epoch) => gmm_prompt.fits >= 1

\* C17: the first predict call of a stage built from the previous stage's
\* pair, whose constructor made a new, unfitted mixture.
C17_Witness ==
    /\ prev = "pair"
    /\ stage_i >= 1
    /\ res.kind = "predict"
    /\ res.epoch = args.fit_gmm_every_n_epoch
    /\ res.batch = 0
    /\ res.fits >= 1
    /\ batch_i = 1

====
